---- MODULE Spec2Model ----
(***************************************************************************)
(* A model of tc-arch-extract: the varint codec, the lazy Snappy           *)
(* decompressor, the schema codec with the schematic patcher               *)
(* (tc_fix_rams.py) and the dependency closure of the packager             *)
(* (tc_extract_arch.py).                                                   *)
(*                                                                         *)
(* Python indices are kept 0-based: the byte at Python index i of a        *)
(* sequence s is s[i + 1].  An exception is a result record with           *)
(* ok = FALSE (or raised = TRUE) that keeps every assignment made before   *)
(* the exception was raised.                                               *)
(***************************************************************************)
EXTENDS Integers, Sequences, FiniteSets, TLC

VARIABLES
    \* ---- varint codec (both tools)
    vn,                   \* the integer handed to make_varint
    vbytes,               \* make_varint's output
    vread,                \* what the two read_varint functions return for it
    \* ---- SnappyDecompress (one instance)
    tool,                 \* "patcher" (tc_fix_rams) or "packager" (tc_extract_arch)
    compressed_data,      \* self.compressed_data
    uncompressed_data,    \* self.uncompressed_data
    uncompressed_length,  \* self.uncompressed_length
    index,                \* self.index
    req,                  \* the last __getitem__ request
    result,               \* what the last __getitem__ returned or raised
    chunks,               \* history: one record per chunk executed so far
    payload,              \* history: the bytes a literal-only stream was built from
    \* ---- schema codec and patcher main()
    content,              \* the bytes of circuit.data before main() runs
    buf,                  \* a decompressed buffer handed to Schematic.parse
    parsed,               \* the result of Schematic.parse(buf, 0)
    unparsed,             \* the result of unparse() on the parsed tree
    patched,              \* the outcome of main(): status, tree, files
    \* ---- collect_files of the packager
    ccs,                  \* the catalog: id -> dependency list of that entry
    dependencies,         \* the target schematic's own dependency list
    queue,                \* the worklist
    to_extract,           \* the visited set
    pc,                   \* "loop", "done" or "error"
    expanded,             \* history: how many times each id was looked up and expanded
    zero_read             \* history: a dependency list read so far contained id 0

varintVars == <<vn, vbytes, vread>>
snappyVars == <<tool, compressed_data, uncompressed_data, uncompressed_length,
                index, req, result, chunks, payload>>
codecVars  == <<content, buf, parsed, unparsed, patched>>
depsVars   == <<ccs, dependencies, queue, to_extract, pc, expanded, zero_read>>
vars       == <<varintVars, snappyVars, codecVars, depsVars>>

(***************************************************************************)
(* Bytes                                                                   *)
(***************************************************************************)
Min(a, b) == IF a <= b THEN a ELSE b
Max(a, b) == IF a >= b THEN a ELSE b

\* Python data[a:b] for 0 <= a, 0 <= b: both ends are clamped to len(data).
PySlice(data, a, b) == SubSeq(data, Min(a, Len(data)) + 1, Min(b, Len(data)))

\* Python data[a:].
PyTail(data, a) == PySlice(data, a, Len(data))

\* bytes([b]) * k
Repeat(b, k) == [i \in 1..k |-> b]

\* int.from_bytes(bs, 'little', signed=False); the empty slice gives 0.
RECURSIVE from_bytes_unsigned(_)
from_bytes_unsigned(bs) ==
    IF bs = <<>> THEN 0
    ELSE bs[1] + 256 * from_bytes_unsigned(Tail(bs))

\* int.from_bytes(bs, 'little', signed=True): two's complement over the bytes
\* that are there, so the sign bit is the top bit of the last byte present.
RECURSIVE complement_value(_)
complement_value(bs) ==
    IF bs = <<>> THEN 0
    ELSE (255 - bs[1]) + 256 * complement_value(Tail(bs))

from_bytes_signed(bs) ==
    IF bs # <<>> /\ bs[Len(bs)] >= 128
    THEN -(complement_value(bs)) - 1
    ELSE from_bytes_unsigned(bs)

\* x.to_bytes(n, 'little', signed=False) for 0 <= x < 256^n.
RECURSIVE to_bytes_unsigned(_, _)
to_bytes_unsigned(x, n) ==
    IF n = 0 THEN <<>>
    ELSE <<x % 256>> \o to_bytes_unsigned(x \div 256, n - 1)

RECURSIVE complement_bytes(_, _)
complement_bytes(y, n) ==
    IF n = 0 THEN <<>>
    ELSE <<255 - (y % 256)>> \o complement_bytes(y \div 256, n - 1)

\* x.to_bytes(n, 'little', signed=True) for -(256^n)/2 <= x < (256^n)/2.
to_bytes_signed(x, n) ==
    IF x < 0 THEN complement_bytes(-x - 1, n) ELSE to_bytes_unsigned(x, n)

(***************************************************************************)
(* Varint codec                                                            *)
(***************************************************************************)
\* tc_fix_rams.read_varint: each 7-bit group is OR-ed in at shift j, j += 7.
RECURSIVE read_varint_loop(_, _, _, _)
read_varint_loop(data, i, out, weight) ==
    IF i >= Len(data)
    THEN [ok |-> FALSE, out |-> out, i |-> i]              \* data[i]: IndexError
    ELSE LET b  == data[i + 1]
             o2 == out + (b % 128) * weight
         IN  IF b >= 128
             THEN read_varint_loop(data, i + 1, o2, weight * 128)
             ELSE [ok |-> TRUE, out |-> o2, i |-> i + 1]

read_varint(data, start) == read_varint_loop(data, start, 0, 1)

\* tc_extract_arch.read_varint: the running total is shifted left by 7 and the
\* new group OR-ed in at the low end.
RECURSIVE read_varint_packager_loop(_, _, _)
read_varint_packager_loop(data, i, out) ==
    IF i >= Len(data)
    THEN [ok |-> FALSE, out |-> out, i |-> i]
    ELSE LET b  == data[i + 1]
             o2 == out * 128 + (b % 128)
         IN  IF b >= 128
             THEN read_varint_packager_loop(data, i + 1, o2)
             ELSE [ok |-> TRUE, out |-> o2, i |-> i + 1]

read_varint_packager(data, start) == read_varint_packager_loop(data, start, 0)

RECURSIVE make_varint(_)
make_varint(n) ==
    IF n > 127
    THEN <<(n % 128) + 128>> \o make_varint(n \div 128)
    ELSE <<n>>

\* snappy_encode: one literal chunk with a four-byte length.
LiteralTag4 == 252
snappy_encode(data) ==
    IF data = <<>> THEN <<>>
    ELSE make_varint(Len(data)) \o <<LiteralTag4>>
         \o to_bytes_unsigned(Len(data) - 1, 4) \o data

(***************************************************************************)
(* SnappyDecompress.  A decompressor is the record                         *)
(*   [c, out, index, raised, log]                                          *)
(* of compressed_data, uncompressed_data, index, whether the running call  *)
(* raised, and the chunks executed so far: for each its start_index (at),  *)
(* its offset and length, and len(uncompressed_data) before and after it.  *)
(***************************************************************************)
ChunkRecord(kind, at, offset, length, before, after, raised) ==
    [kind |-> kind, at |-> at, offset |-> offset, length |-> length,
     before |-> before, after |-> after, raised |-> raised]

_uncompress_literal(d) ==
    LET tag    == d.c[d.index + 1] \div 4
        i1     == d.index + 1
        bc     == tag - 59
        length == (IF tag >= 60
                   THEN from_bytes_unsigned(PySlice(d.c, i1, i1 + bc))
                   ELSE tag) + 1
        i2     == IF tag >= 60 THEN i1 + bc ELSE i1
        out2   == d.out \o PySlice(d.c, i2, i2 + length)
    IN  [d EXCEPT !.out = out2,
                  !.index = i2 + length,
                  !.log = Append(@, ChunkRecord("literal", d.index, 0, length,
                                                Len(d.out), Len(out2), FALSE))]

\* for i in range(length): out.append(out[k + i]).  A negative Python index
\* counts from the end of the bytearray as it is at that moment; an index
\* outside -len .. len-1 raises IndexError and keeps the bytes appended so far.
RECURSIVE copy_loop(_, _, _, _)
copy_loop(out, k, i, length) ==
    IF i >= length THEN [out |-> out, raised |-> FALSE]
    ELSE LET j == k + i
         IN  IF j >= Len(out) \/ j < -Len(out)
             THEN [out |-> out, raised |-> TRUE]
             ELSE copy_loop(Append(out, out[(IF j < 0 THEN j + Len(out) ELSE j) + 1]),
                            k, i + 1, length)

_uncompress_copy(d) ==
    LET tag  == d.c[d.index + 1]
        i1   == d.index + 1
        kind == tag % 4
    IN  IF kind = 1 /\ i1 >= Len(d.c)
        THEN \* self.compressed_data[self.index]: IndexError after index += 1
             [d EXCEPT !.index = i1, !.raised = TRUE]
        ELSE
        LET length == IF kind = 1 THEN ((tag % 32) \div 4) + 4 ELSE (tag \div 4) + 1
            offset == CASE kind = 1 -> (tag \div 32) * 256 + d.c[i1 + 1]
                        [] kind = 2 -> from_bytes_unsigned(PySlice(d.c, i1, i1 + 2))
                        [] OTHER    -> from_bytes_unsigned(PySlice(d.c, i1, i1 + 4))
            i2     == CASE kind = 1 -> i1 + 1
                        [] kind = 2 -> i1 + 2
                        [] OTHER    -> i1 + 4
            r      == copy_loop(d.out, Len(d.out) - offset, 0, length)
        IN  [d EXCEPT !.out = r.out,
                      !.index = i2,
                      !.raised = r.raised,
                      !.log = Append(@, ChunkRecord("copy", d.index, offset, length,
                                                    Len(d.out), Len(r.out), r.raised))]

\* while self.index < len(compressed) and len(uncompressed) < index: one chunk.
RECURSIVE _uncompress_till(_, _)
_uncompress_till(d, target) ==
    IF d.raised \/ ~(d.index < Len(d.c) /\ Len(d.out) < target) THEN d
    ELSE IF d.c[d.index + 1] % 4 = 0
         THEN _uncompress_till(_uncompress_literal(d), target)
         ELSE _uncompress_till(_uncompress_copy(d), target)

\* slice(start, stop).indices(length) for step None; NoneIndex stands for None.
NoneIndex == [none |-> TRUE, v |-> 0]
IntIndex(v) == [none |-> FALSE, v |-> v]
ClampIndex(x, length, dflt) ==
    IF x.none THEN dflt
    ELSE IF x.v < 0 THEN Max(x.v + length, 0)
    ELSE Min(x.v, length)
slice_indices(start, stop, length) ==
    [start |-> ClampIndex(start, length, 0), stop |-> ClampIndex(stop, length, length)]

\* SnappyDecompress.__init__: which read_varint runs depends on the tool.
header_varint(which, compressed, base) ==
    IF which = "patcher" THEN read_varint(compressed, base)
    ELSE read_varint_packager(compressed, base)

\* __getitem__(int): (decompressor after the call, result).
getitem_int(d, item) ==
    LET d2 == _uncompress_till([d EXCEPT !.raised = FALSE], item)
        n  == Len(d2.out)
        j  == IF item < 0 THEN item + n ELSE item
    IN  [d |-> d2,
         result |-> IF d2.raised \/ j < 0 \/ j >= n
                    THEN [ok |-> FALSE, val |-> <<>>]
                    ELSE [ok |-> TRUE, val |-> <<d2.out[j + 1]>>]]

\* A decompressor that is not lazy: every slice request decodes again from
\* the first chunk.
getitem_slice_restart(d, start, stop, declared) ==
    LET s  == slice_indices(start, stop, declared)
        h  == header_varint("patcher", d.c, 1)
        d0 == [d EXCEPT !.raised = FALSE, !.index = h.i, !.out = <<>>, !.log = <<>>]
        d2 == _uncompress_till(d0, Max(s.start, s.stop))
    IN  [d |-> d2,
         result |-> IF d2.raised THEN [ok |-> FALSE, val |-> <<>>]
                    ELSE [ok |-> TRUE, val |-> PySlice(d2.out, s.start, s.stop)]]

\* __getitem__(slice): the slice is normalised against uncompressed_length.
getitem_slice(d, start, stop, declared) ==
    LET s  == slice_indices(start, stop, declared)
        d2 == _uncompress_till([d EXCEPT !.raised = FALSE], Max(s.start, s.stop))
    IN  [d |-> d2,
         result |-> IF d2.raised THEN [ok |-> FALSE, val |-> <<>>]
                    ELSE [ok |-> TRUE, val |-> PySlice(d2.out, s.start, s.stop)]]

(***************************************************************************)
(* The schema codec.  A field codec is a descriptor record; parse and      *)
(* unparse interpret it, as Parser.parse / Parser.unparse interpret the    *)
(* dataclass field metadata.  A str is its sequence of code points.        *)
(*                                                                         *)
(* A parse result is [ok, val, i, exc, notes, short]: the value and the    *)
(* next offset, or the exception with the notes added on its way out.      *)
(* short is history: a read asked for bytes past the end of the buffer.    *)
(***************************************************************************)
U(n) == [type |-> "U", n |-> n]
S(n) == [type |-> "S", n |-> n]
seq(f, l) == [type |-> "seq", f |-> f, l |-> l]
pair(f, g) == [type |-> "pair", f |-> f, g |-> g]
string(l) == [type |-> "string", l |-> l]
remainder == [type |-> "remainder"]
record(cls) == [type |-> "record", cls |-> cls]

CustomKind == 78
RamKind == 118

Field(name, parser, cond) == [name |-> name, parser |-> parser, cond |-> cond]

\* fields(cls) without 'raw': name, metadata['parser'], metadata['if'].
PointFields ==
    << Field("x", S(2), "always"),
       Field("y", S(2), "always") >>

LinkedComponentFields ==
    << Field("permanent_id", S(8), "always"),
       Field("inner_id", S(8), "always"),
       Field("name", string(U(2)), "always"),
       Field("offset", S(8), "always") >>

CustomCompDataFields ==
    << Field("custom_id", S(8), "always"),
       Field("static_states", seq(pair(S(8), S(8)), U(2)), "always") >>

ComponentFields ==
    << Field("component_kind", U(2), "always"),
       Field("position", record("Point"), "always"),
       Field("rotation", U(1), "always"),
       Field("permanent_id", U(8), "always"),
       Field("custom_string", string(U(2)), "always"),
       Field("settings", seq(U(8), U(2)), "always"),
       Field("buffer_size", S(8), "always"),
       Field("ui_order", S(2), "always"),
       Field("word_size", S(8), "always"),
       Field("linked_components", seq(record("LinkedComponent"), U(2)), "always"),
       Field("selected_programs",
             seq(pair(string(U(2)), string(U(2))), U(2)), "always"),
       Field("custom_data", record("CustomCompData"), "custom") >>

SchematicFields ==
    << Field("custom_id", S(8), "always"),
       Field("hub_id", U(4), "always"),
       Field("gate", S(8), "always"),
       Field("delay", S(8), "always"),
       Field("menu_visible", U(1), "always"),
       Field("clock_speed", U(8), "always"),
       Field("dependencies", seq(S(8), U(2)), "always"),
       Field("description", string(U(2)), "always"),
       Field("camera_position", record("Point"), "always"),
       Field("synced", U(1), "always"),
       Field("_dummy", U(2), "always"),
       Field("player_data", seq(U(8), U(2)), "always"),
       Field("hub_description", string(U(2)), "always"),
       Field("components", seq(record("Component"), S(8)), "always"),
       Field("wires", remainder, "always") >>

Fields(cls) ==
    CASE cls = "Point" -> PointFields
      [] cls = "LinkedComponent" -> LinkedComponentFields
      [] cls = "CustomCompData" -> CustomCompDataFields
      [] cls = "Component" -> ComponentFields
      [] cls = "Schematic" -> SchematicFields

\* field.metadata['if'](**kwargs): lambda component_kind, **_: component_kind == 78
Present(cond, kwargs) == cond = "always" \/ kwargs.component_kind = CustomKind

\* bytes.decode('utf-8'), strict.
Continuation(b) == 128 <= b /\ b <= 191
RECURSIVE utf8_decode_from(_, _, _)
utf8_decode_from(bs, k, acc) ==
    IF k > Len(bs) THEN [ok |-> TRUE, val |-> acc]
    ELSE
    LET b0   == bs[k]
        has1 == k + 1 <= Len(bs)
        has2 == k + 2 <= Len(bs)
        has3 == k + 3 <= Len(bs)
        bad  == [ok |-> FALSE, val |-> acc]
    IN  CASE b0 < 128 -> utf8_decode_from(bs, k + 1, Append(acc, b0))
          [] 194 <= b0 /\ b0 <= 223 ->
               IF has1 /\ Continuation(bs[k + 1])
               THEN utf8_decode_from(bs, k + 2,
                        Append(acc, (b0 - 192) * 64 + (bs[k + 1] - 128)))
               ELSE bad
          [] 224 <= b0 /\ b0 <= 239 ->
               IF /\ has2
                  /\ Continuation(bs[k + 1]) /\ Continuation(bs[k + 2])
                  /\ (b0 = 224 => bs[k + 1] >= 160)      \* overlong
                  /\ (b0 = 237 => bs[k + 1] <= 159)      \* surrogate
               THEN utf8_decode_from(bs, k + 3,
                        Append(acc, (b0 - 224) * 4096 + (bs[k + 1] - 128) * 64
                                    + (bs[k + 2] - 128)))
               ELSE bad
          [] 240 <= b0 /\ b0 <= 244 ->
               IF /\ has3
                  /\ Continuation(bs[k + 1]) /\ Continuation(bs[k + 2])
                  /\ Continuation(bs[k + 3])
                  /\ (b0 = 240 => bs[k + 1] >= 144)      \* overlong
                  /\ (b0 = 244 => bs[k + 1] <= 143)      \* above U+10FFFF
               THEN utf8_decode_from(bs, k + 4,
                        Append(acc, (b0 - 240) * 262144 + (bs[k + 1] - 128) * 4096
                                    + (bs[k + 2] - 128) * 64 + (bs[k + 3] - 128)))
               ELSE bad
          [] OTHER -> bad

utf8_decode(bs) == utf8_decode_from(bs, 1, <<>>)

\* str.encode('utf-8') of a str that holds no surrogate.
RECURSIVE utf8_encode(_)
utf8_encode(cps) ==
    IF cps = <<>> THEN <<>>
    ELSE LET c == cps[1]
             e == CASE c < 128   -> <<c>>
                    [] c < 2048  -> <<192 + (c \div 64), 128 + (c % 64)>>
                    [] c < 65536 -> <<224 + (c \div 4096), 128 + ((c \div 64) % 64),
                                      128 + (c % 64)>>
                    [] OTHER     -> <<240 + (c \div 262144), 128 + ((c \div 4096) % 64),
                                      128 + ((c \div 64) % 64), 128 + (c % 64)>>
         IN  e \o utf8_encode(Tail(cps))

Ok(val, i, short) ==
    [ok |-> TRUE, val |-> val, i |-> i, exc |-> "", notes |-> <<>>, short |-> short]
Raise(exc, i, short) ==
    [ok |-> FALSE, val |-> 0, i |-> i, exc |-> exc, notes |-> <<>>, short |-> short]
Note(what, name, j, at) == [what |-> what, name |-> name, j |-> j, at |-> at]

\* with_note: an exception leaves with the note added; since is the history
\* flag of the reads made before this one.
with_note(r, note, since) ==
    IF r.ok THEN [r EXCEPT !.short = @ \/ since]
    ELSE [r EXCEPT !.notes = Append(@, note), !.short = @ \/ since]

RECURSIVE parse(_, _, _)
RECURSIVE parse_elements(_, _, _, _, _, _, _)
RECURSIVE parse_fields(_, _, _, _, _, _)

\* The element loop of seq: for j in range(length).
parse_elements(f, data, i, j, length, out, short) ==
    IF j >= length THEN Ok(out, i, short)
    ELSE LET e == with_note(parse(f, data, i), Note("element", "", j, i), short)
         IN  IF ~e.ok THEN e
             ELSE parse_elements(f, data, e.i, j + 1, length, Append(out, e.val), e.short)

\* The field loop of Parser.parse, from the k-th field on.
parse_fields(cls, data, i, k, kwargs, short) ==
    IF k > Len(Fields(cls)) THEN Ok(kwargs, i, short)
    ELSE LET fld == Fields(cls)[k]
         IN  IF ~Present(fld.cond, kwargs)
             THEN parse_fields(cls, data, i, k + 1, kwargs, short)
             ELSE LET r == with_note(parse(fld.parser, data, i),
                                     Note("field", fld.name, 0, i), short)
                  IN  IF ~r.ok THEN r
                      ELSE parse_fields(cls, data, r.i, k + 1,
                                        (fld.name :> r.val) @@ kwargs, r.short)

parse(p, data, i) ==
    CASE p.type = "U" ->
           Ok(from_bytes_unsigned(PySlice(data, i, i + p.n)), i + p.n,
              i + p.n > Len(data))
      [] p.type = "S" ->
           Ok(from_bytes_signed(PySlice(data, i, i + p.n)), i + p.n,
              i + p.n > Len(data))
      [] p.type = "string" ->
           LET l     == parse(p.l, data, i)
               stop  == l.i + l.val
               dec   == utf8_decode(PySlice(data, l.i, stop))
               short == l.short \/ stop > Len(data)
           IN  IF dec.ok THEN Ok(dec.val, stop, short)
               ELSE Raise("UnicodeDecodeError", l.i, short)
      [] p.type = "seq" ->
           LET l == with_note(parse(p.l, data, i), Note("length", "", 0, i), FALSE)
           IN  IF ~l.ok THEN l
               ELSE IF ~(l.val < Len(data))
                    THEN Raise("AssertionError", l.i, l.short)
                    ELSE parse_elements(p.f, data, l.i, 0, l.val, <<>>, l.short)
      [] p.type = "pair" ->
           LET a == with_note(parse(p.f, data, i), Note("left", "", 0, i), FALSE)
           IN  IF ~a.ok THEN a
               ELSE LET b == with_note(parse(p.g, data, a.i),
                                       Note("right", "", 0, a.i), a.short)
                    IN  IF ~b.ok THEN b
                        ELSE Ok(<<a.val, b.val>>, b.i, b.short)
      [] p.type = "remainder" ->
           Ok(PyTail(data, i), Len(data), FALSE)
      [] p.type = "record" ->
           IF i >= Len(data) THEN Raise("ValueError", i, TRUE)
           ELSE LET r == parse_fields(p.cls, data, i, 1, ("raw" :> <<>>), FALSE)
                IN  IF ~r.ok THEN r
                    ELSE [r EXCEPT !.val = [@ EXCEPT !.raw = PySlice(data, i, r.i)]]

RECURSIVE unparse(_, _)
RECURSIVE unparse_elements(_, _)
RECURSIVE unparse_fields(_, _, _)

\* b''.join(f_un(e) for e in x)
unparse_elements(f, x) ==
    IF x = <<>> THEN <<>>
    ELSE unparse(f, x[1]) \o unparse_elements(f, Tail(x))

\* The field loop of Parser.unparse, from the k-th field on.
unparse_fields(cls, self, k) ==
    IF k > Len(Fields(cls)) THEN <<>>
    ELSE LET fld == Fields(cls)[k]
         IN  IF ~Present(fld.cond, self)
             THEN unparse_fields(cls, self, k + 1)
             ELSE unparse(fld.parser, self[fld.name]) \o unparse_fields(cls, self, k + 1)

unparse(p, x) ==
    CASE p.type = "U" -> to_bytes_unsigned(x, p.n)
      [] p.type = "S" -> to_bytes_signed(x, p.n)
      [] p.type = "string" ->
           LET data == utf8_encode(x)
           IN  unparse(p.l, Len(data)) \o data
      [] p.type = "seq" -> unparse(p.l, Len(x)) \o unparse_elements(p.f, x)
      [] p.type = "pair" -> unparse(p.f, x[1]) \o unparse(p.g, x[2])
      [] p.type = "remainder" -> x
      [] p.type = "record" -> unparse_fields(p.cls, x, 1)

(***************************************************************************)
(* Idle values: a specification of one component leaves the others here.   *)
(***************************************************************************)
NoRead == [done |-> FALSE, patcher |-> [ok |-> FALSE, out |-> 0, i |-> 0],
                           packager |-> [ok |-> FALSE, out |-> 0, i |-> 0]]
NoRequest == [kind |-> "none", start |-> NoneIndex, stop |-> NoneIndex]
NoResult == [ok |-> TRUE, val |-> <<>>]
NoPayload == [is |-> FALSE, data |-> <<>>]
NoParse == [done |-> FALSE]
NoPatch == [status |-> "start"]

IdleVarint == vn = 0 /\ vbytes = <<>> /\ vread = NoRead
IdleSnappy ==
    /\ tool = "patcher" /\ compressed_data = <<>> /\ uncompressed_data = <<>>
    /\ uncompressed_length = 0 /\ index = 0 /\ req = NoRequest
    /\ result = NoResult /\ chunks = <<>> /\ payload = NoPayload
IdleCodec ==
    /\ content = <<>> /\ buf = <<>>
    /\ parsed = NoParse /\ unparsed = NoParse /\ patched = NoPatch
IdleDeps ==
    /\ ccs = <<>> /\ dependencies = <<>> /\ queue = <<>> /\ to_extract = {}
    /\ pc = "idle" /\ expanded = <<>> /\ zero_read = FALSE

(***************************************************************************)
(* Specification SpecVarint: make_varint, then both readers from index 0.  *)
(***************************************************************************)
MaxVarint == 16500

InitVarint ==
    /\ vn \in 0..MaxVarint /\ vbytes = <<>> /\ vread = NoRead
    /\ IdleSnappy /\ IdleCodec /\ IdleDeps

MakeVarint ==
    /\ vbytes = <<>>
    /\ vbytes' = make_varint(vn)
    /\ UNCHANGED <<vn, vread, snappyVars, codecVars, depsVars>>

ReadVarint ==
    /\ vbytes # <<>> /\ ~vread.done
    /\ vread' = [done |-> TRUE,
                 patcher |-> read_varint(vbytes, 0),
                 packager |-> read_varint_packager(vbytes, 0)]
    /\ UNCHANGED <<vn, vbytes, snappyVars, codecVars, depsVars>>

NextVarint == MakeVarint \/ ReadVarint
SpecVarint == InitVarint /\ [][NextVarint]_vars

(***************************************************************************)
(* Specification SpecSnappy: one SnappyDecompress instance of either tool, *)
(* built over a stream, then any sequence of element and slice requests.   *)
(***************************************************************************)
VersionByte == 10
MaxChunks == 2
MaxSkew == 1
LongLen == 128
MaxReq == 4

\* One chunk: its bytes, whether it is a complete literal, and the literal's data.
Chunk(b, lit, data) == [b |-> b, lit |-> lit, data |-> data]
ChunkAlphabet ==
    { Chunk(<<0, 97>>, TRUE, <<97>>),                \* literal, length 1
      Chunk(<<240, 1, 98, 97>>, TRUE, <<98, 97>>),   \* literal, one length byte
      Chunk(<<8, 97>>, FALSE, <<>>),                 \* literal cut short
      Chunk(<<1, 1>>, FALSE, <<>>),                  \* copy 01: length 4, offset 1
      Chunk(<<1, 0>>, FALSE, <<>>),                  \* copy 01: length 4, offset 0
      Chunk(<<1>>, FALSE, <<>>),                     \* copy 01 without its offset byte
      Chunk(<<10, 1, 0>>, FALSE, <<>>),              \* copy 10: length 3, offset 1
      Chunk(<<3, 2, 0, 0, 0>>, FALSE, <<>>) }        \* copy 11: length 1, offset 2

RECURSIVE Bodies(_)
Bodies(k) ==
    IF k = 0 THEN {Chunk(<<>>, TRUE, <<>>)}
    ELSE LET prev == Bodies(k - 1)
         IN  prev \cup { Chunk(p.b \o c.b, p.lit /\ c.lit, p.data \o c.data) :
                         p \in prev, c \in ChunkAlphabet }

\* The decompressor over a stream, right after __init__.
Fresh(c, i) == [c |-> c, out |-> <<>>, index |-> i, raised |-> FALSE, log |-> <<>>]

\* What the chunks of a body expand to when nothing stops the loop early.
BodyOutput(b) == _uncompress_till(Fresh(b, 0), 64 * Len(b) + 1).out

Streams ==
    { [c |-> <<VersionByte>> \o make_varint(Max(0, Len(BodyOutput(body.b)) + skew)) \o body.b,
       payload |-> [is |-> body.lit /\ skew = 0, data |-> body.data]] :
        body \in Bodies(MaxChunks), skew \in -MaxSkew..MaxSkew }
    \cup
    { [c |-> <<VersionByte>> \o snappy_encode(Repeat(97, n)),
       payload |-> [is |-> TRUE, data |-> Repeat(97, n)]] :
        n \in (LongLen - 1)..(LongLen + 1) }

InitSnappy ==
    /\ tool \in {"patcher", "packager"}
    /\ \E s \in Streams :
         LET h == header_varint(tool, s.c, 1)
         IN  /\ h.ok
             /\ compressed_data = s.c
             /\ payload = s.payload
             /\ uncompressed_length = h.out
             /\ index = h.i
    /\ uncompressed_data = <<>>
    /\ req = NoRequest /\ result = NoResult /\ chunks = <<>>
    /\ IdleVarint /\ IdleCodec /\ IdleDeps

Self == [c |-> compressed_data, out |-> uncompressed_data, index |-> index,
         raised |-> FALSE, log |-> chunks]

Returned(r, request) ==
    /\ uncompressed_data' = r.d.out
    /\ index' = r.d.index
    /\ chunks' = r.d.log
    /\ result' = r.result
    /\ req' = request
    /\ UNCHANGED <<tool, compressed_data, uncompressed_length, payload,
                   varintVars, codecVars, depsVars>>

GetItemInt ==
    /\ compressed_data # <<>>
    /\ \E item \in -1..MaxReq :
         Returned(getitem_int(Self, item),
                  [kind |-> "int", start |-> IntIndex(item), stop |-> NoneIndex])

GetItemSlice ==
    /\ compressed_data # <<>>
    /\ \E start \in {NoneIndex, IntIndex(1)},
          stop \in {NoneIndex} \cup {IntIndex(k) : k \in 0..MaxReq} :
         Returned(getitem_slice(Self, start, stop, uncompressed_length),
                  [kind |-> "slice", start |-> start, stop |-> stop])

NextSnappy == GetItemInt \/ GetItemSlice
SpecSnappy == InitSnappy /\ [][NextSnappy]_vars

(***************************************************************************)
(* The patcher's main(): read circuit.data, decompress, parse, set the     *)
(* word sizes of the two RAM components, move them to the end, write back. *)
(***************************************************************************)
Schematic == record("Schematic")

RegFileSize == 256
ProgramSize == 65536
RegFileWord == 16
ProgramWord == 32

\* SnappyDecompress(content, 1)[:] of tc_fix_rams.
decompress_all(file) ==
    LET h == read_varint(file, 1)
    IN  IF ~h.ok THEN [ok |-> FALSE, val |-> <<>>]
        ELSE getitem_slice(Fresh(file, h.i), NoneIndex, NoneIndex, h.out).result

\* list.remove(x): drops the first element equal to x.
RECURSIVE list_remove(_, _)
list_remove(list, x) ==
    IF list = <<>> THEN <<>>
    ELSE IF list[1] = x THEN Tail(list)
    ELSE <<list[1]>> \o list_remove(Tail(list), x)

\* [comp for comp in res.components if comp.component_kind == 118], as indices.
ram_indices(components) ==
    { k \in DOMAIN components : components[k].component_kind = RamKind }

\* Input order kept: what the patcher would do without its sort.
unsorted_pair(components, a, b) == <<a, b>>

\* ram_components.sort(key=lambda x: x.buffer_size) for two components at
\* indices a < b: the sort is stable.
sorted_pair(components, a, b) ==
    IF components[b].buffer_size < components[a].buffer_size
    THEN <<b, a>> ELSE <<a, b>>

Failed(exc) == [status |-> "error", exc |-> exc]

patch(res) ==
    LET rams == ram_indices(res.components)
    IN  IF Cardinality(rams) # 2 THEN Failed("Expected exactly two RAM components")
        ELSE
        LET a     == CHOOSE k \in rams : \A m \in rams : k <= m
            b     == CHOOSE k \in rams : k # a
            order == sorted_pair(res.components, a, b)
            r     == order[1]
            g     == order[2]
        IN  IF res.components[r].buffer_size # RegFileSize
            THEN Failed("Expected the smaller RAM to have exactly 256 bytes")
            ELSE IF res.components[g].buffer_size # ProgramSize
            THEN Failed("Expected the larger RAM to have exactly 65536 bytes")
            ELSE
            LET set      == [res.components EXCEPT ![r].word_size = RegFileWord,
                                                   ![g].word_size = ProgramWord]
                reg_file == set[r]
                program  == set[g]
                moved    == list_remove(list_remove(set, reg_file), program)
                               \o <<reg_file, program>>
            IN  [status |-> "written", res |-> [res EXCEPT !.components = moved]]

main(file) ==
    IF file = <<>> THEN Failed("IndexError")
    ELSE IF file[1] # VersionByte THEN Failed("Only version 10 is supported")
    ELSE LET dc == decompress_all(file)
         IN  IF ~dc.ok THEN Failed("IndexError")
             ELSE LET r == parse(Schematic, dc.val, 0)
                  IN  IF ~r.ok THEN Failed(r.exc)
                      ELSE LET p == patch(r.val)
                           IN  IF p.status = "error" THEN p
                               ELSE [status |-> "written",
                                     res    |-> p.res,
                                     bak    |-> file,
                                     file   |-> <<VersionByte>> \o
                                        snappy_encode(unparse(Schematic, p.res))]

(***************************************************************************)
(* Inputs: the encodings of small schematics, whole or cut short.          *)
(***************************************************************************)
PointOf(x, y) == [x |-> x, y |-> y]

ComponentOf(kind, custom_string, buffer_size, word_size, linked) ==
    [component_kind |-> kind, position |-> PointOf(-2, 3), rotation |-> 1,
     permanent_id |-> 7, custom_string |-> custom_string, settings |-> <<>>,
     buffer_size |-> buffer_size, ui_order |-> -1, word_size |-> word_size,
     linked_components |-> linked, selected_programs |-> <<>>]

LinkedOf == [permanent_id |-> 1, inner_id |-> 2, name |-> <<110>>, offset |-> -3]

PlainComponent == ComponentOf(5, <<97>>, 0, 0, <<LinkedOf>>)
CustomComponent ==
    ComponentOf(CustomKind, <<>>, 0, 0, <<>>) @@
    [custom_data |-> [custom_id |-> 5, static_states |-> << <<1, -1>> >>]]
RegFileRam == ComponentOf(RamKind, <<>>, RegFileSize, 8, <<>>)
ProgramRam == ComponentOf(RamKind, <<>>, ProgramSize, 8, <<>>)
OtherRam   == ComponentOf(RamKind, <<>>, 512, 8, <<>>)

Palette == {PlainComponent, CustomComponent, RegFileRam, ProgramRam}

SchematicOf(deps, description, components, wires) ==
    [custom_id |-> 9, hub_id |-> 1, gate |-> 2, delay |-> 3, menu_visible |-> 1,
     clock_speed |-> 100, dependencies |-> deps, description |-> description,
     camera_position |-> PointOf(1, -1), synced |-> 0, _dummy |-> 0,
     player_data |-> <<4>>, hub_description |-> <<104>>,
     components |-> components, wires |-> wires]

ComponentLists(n, palette) == UNION { [1..k -> palette] : k \in 0..n }

\* Two shapes of everything around the components.
Trees(lists) ==
    { SchematicOf(<<>>, <<>>, cs, <<>>) : cs \in lists }
    \cup { SchematicOf(<<5>>, <<233>>, cs, <<1, 2>>) : cs \in lists }

\* circuit.data for decompressed bytes b.
FileOf(b) == <<VersionByte>> \o snappy_encode(b)

(***************************************************************************)
(* Properties of SnappyDecompress                                          *)
(***************************************************************************)
IsPrefix(s, t) == Len(s) <= Len(t) /\ SubSeq(t, 1, Len(s)) = s

\* The instance as __init__ left it, and what a request for the full stream,
\* dc[:], does from there.
HeaderEnd == header_varint(tool, compressed_data, 1).i
FullRequest ==
    getitem_slice(Fresh(compressed_data, HeaderEnd), NoneIndex, NoneIndex,
                  uncompressed_length)
IsFullSlice(r) == r.kind = "slice" /\ r.start.none /\ r.stop.none

\* A request dc[:K] or dc[0:K], K >= 0.
IsFirstK(r) ==
    /\ r.kind = "slice" /\ ~r.stop.none /\ r.stop.v >= 0
    /\ (r.start.none \/ r.start.v = 0)

\* C2: the full slice of a literal-only stream of N bytes is those N bytes, and
\* a copy chunk with offset O and length L run when L' >= O bytes exist appends L
\* bytes, the i-th equal to output[L' - O + i] (overlapping copies repeat the
\* bytes just written).  O >= 1: with O = 0 the byte output[L'] named by the
\* claim does not exist when the first byte is appended.
C2_DecompressionCorrect ==
    /\ (payload.is /\ IsFullSlice(req)) =>
           (result.ok /\ result.val = payload.data)
    /\ \A k \in DOMAIN chunks :
         LET c == chunks[k]
         IN  (c.kind = "copy" /\ c.offset >= 1 /\ c.before >= c.offset) =>
                 /\ ~c.raised
                 /\ c.after = c.before + c.length
                 /\ \A i \in 0..(c.length - 1) :
                      uncompressed_data[c.before + i + 1]
                          = uncompressed_data[c.before - c.offset + i + 1]

\* Between two states the cursor and the output only grow, and the chunks run
\* so far stay as they were.
CursorMonotone ==
    /\ index' >= index
    /\ IsPrefix(uncompressed_data, uncompressed_data')
    /\ IsPrefix(chunks, chunks')
    /\ \A k \in DOMAIN chunks' :
         /\ k > 1 => /\ chunks'[k].at > chunks'[k - 1].at
                     /\ chunks'[k].before = chunks'[k - 1].after
         /\ k > Len(chunks) => chunks'[k].at >= index

\* A stream whose chunks are complete, whose copies stay within the output and
\* whose header is the length of its output.
WellFormed ==
    LET full == FullRequest.d
    IN  /\ ~full.raised
        /\ full.index = Len(compressed_data)
        /\ Len(full.out) = uncompressed_length
        /\ \A k \in DOMAIN full.log :
              /\ full.log[k].after - full.log[k].before = full.log[k].length
              /\ full.log[k].kind = "copy" =>
                    (1 <= full.log[k].offset /\ full.log[k].offset <= full.log[k].before)

\* C3 as stated: from a new instance, a request for the first K bytes, K less
\* than the total uncompressed length, moves the compressed cursor over strictly
\* fewer input bytes than a request for the full stream does; the cursor never
\* moves backwards and bytes already in the output are never decoded again or
\* changed.  The first part is checked on well-formed streams only: every chunk
\* complete, every copy within the output, the header equal to the output length.
C3_LazyStrict ==
    [][ /\ (req.kind = "none" /\ IsFirstK(req') /\ WellFormed
              /\ req'.stop.v < uncompressed_length)
            => index' - index < FullRequest.d.index - index
        /\ CursorMonotone ]_vars

\* C3 as amended: a request for the first K bytes never moves the cursor
\* further than the request for the full stream does, and strictly less far
\* whenever it runs fewer chunks; the cursor never moves backwards and the
\* output already produced is never decoded again or changed.
C3_Lazy ==
    [][ /\ (req.kind = "none" /\ IsFirstK(req')) =>
             /\ index' <= FullRequest.d.index
             /\ Len(chunks') < Len(FullRequest.d.log) => index' < FullRequest.d.index
             /\ (req'.stop.v = 0 /\ FullRequest.d.log # <<>>) => index' < FullRequest.d.index
             /\ Len(uncompressed_data') >= Min(req'.stop.v, uncompressed_length)
                  \/ ~result'.ok \/ index' >= Len(compressed_data)
        /\ CursorMonotone ]_vars

\* C3 witness: a request for the first K bytes returned with part of the input
\* still undecoded, after an earlier request had already decoded a chunk.
C3_Witness ==
    /\ IsFirstK(req) /\ result.ok /\ req.stop.v > 0
    /\ Len(chunks) >= 2
    /\ index < FullRequest.d.index

\* C4: len(uncompressed_data) never decreases and never exceeds the declared
\* uncompressed_length, for any compressed input and any sequence of requests.
C4_CursorInvariant ==
    /\ [](Len(uncompressed_data) <= uncompressed_length)
    /\ [][Len(uncompressed_data') >= Len(uncompressed_data)]_vars

\* C5: a copy chunk whose offset is greater than the number of output bytes
\* produced so far fails with an error and appends no byte of that chunk.
C5_MalformedBackReference ==
    \A k \in DOMAIN chunks :
        LET c == chunks[k]
        IN  (c.kind = "copy" /\ c.offset > c.before) =>
                /\ c.raised
                /\ c.after = c.before
                /\ (k = Len(chunks) /\ req.kind # "none") => ~result.ok

(***************************************************************************)
(* Specification SpecDeps: the worklist loop of collect_files.  The        *)
(* catalog ccs maps each id that scan_component_factory found to the       *)
(* dependency list extract_info reads from that entry's file.              *)
(***************************************************************************)
MaxDeps == 2

\* The ids in play: the sentinel 0 and three component ids.
Ids == {0, 1, 2, 3}

\* Dependency lists: up to MaxDeps ids, none repeated.
DepLists ==
    UNION { { s \in [1..k -> Ids] : \A i, j \in 1..k : i # j => s[i] # s[j] } :
            k \in 0..MaxDeps }

\* Catalog entries list their dependencies in ascending order; the entry with
\* id 0, when there is one, has none.
Ascending(s) == \A i \in 1..(Len(s) - 1) : s[i] < s[i + 1]
EntryLists == { s \in DepLists : Ascending(s) }
Catalogs ==
    UNION { { c \in [present -> EntryLists] : 0 \in present => c[0] = <<>> } :
            present \in SUBSET Ids }

Count0 == [i \in Ids |-> 0]

InitDeps ==
    /\ ccs \in Catalogs
    /\ dependencies \in DepLists
    /\ queue = dependencies            \* queue = list(dependencies)
    /\ to_extract = {}
    /\ pc = "loop"
    /\ expanded = Count0
    /\ zero_read = (\E i \in DOMAIN dependencies : dependencies[i] = 0)
    /\ IdleVarint /\ IdleSnappy /\ IdleCodec

Contains0(s) == \E i \in DOMAIN s : s[i] = 0

\* A loop that expands an id again each time it is popped.
VisitedNever(ccid, seen) == FALSE

\* One iteration of `while queue:`.
Visited(ccid, seen) == ccid \in seen                 \* not (ccid not in to_extract)

LoopStep ==
    /\ pc = "loop" /\ queue # <<>>
    /\ LET ccid == queue[Len(queue)]                   \* queue.pop()
           rest == SubSeq(queue, 1, Len(queue) - 1)
       IN  IF Visited(ccid, to_extract)
           THEN /\ queue' = rest
                /\ UNCHANGED <<to_extract, pc, expanded, zero_read>>
           ELSE /\ to_extract' = to_extract \cup {ccid}
                /\ IF ccid \notin DOMAIN ccs
                   THEN \* raise ValueError("Missing component ...")
                        /\ pc' = "error"
                        /\ queue' = rest
                        /\ UNCHANGED <<expanded, zero_read>>
                   ELSE /\ expanded' = [expanded EXCEPT ![ccid] = @ + 1]
                        /\ zero_read' = (zero_read \/ Contains0(ccs[ccid]))
                        /\ IF Contains0(ccs[ccid])
                           THEN \* assert 0 not in dependencies
                                pc' = "error" /\ queue' = rest
                           ELSE pc' = pc /\ queue' = rest \o ccs[ccid]
    /\ UNCHANGED <<ccs, dependencies, varintVars, snappyVars, codecVars>>

\* The loop is left with the queue empty: the mapping is built and returned.
ReturnFiles ==
    /\ pc = "loop" /\ queue = <<>>
    /\ pc' = "done"
    /\ UNCHANGED <<ccs, dependencies, queue, to_extract, expanded, zero_read,
                   varintVars, snappyVars, codecVars>>

NextDeps == LoopStep \/ ReturnFiles
SpecDeps == InitDeps /\ [][NextDeps]_vars

(***************************************************************************)
(* Properties of collect_files                                             *)
(***************************************************************************)
Range(s) == { s[i] : i \in DOMAIN s }

\* The ids reachable from the target's dependency list through the catalog.
RECURSIVE ReachFrom(_)
ReachFrom(found) ==
    LET more == found \cup UNION { Range(ccs[id]) : id \in found \cap DOMAIN ccs }
    IN  IF more = found THEN found ELSE ReachFrom(more)
Reach == ReachFrom(Range(dependencies))

CatalogClosed == Reach \subseteq DOMAIN ccs
ZeroListed == \E id \in Reach \cap DOMAIN ccs : Contains0(ccs[id])

ExactlyOnce ==
    \A id \in Ids : expanded[id] = IF id \in Reach THEN 1 ELSE 0

\* A natural number that every iteration and the return lower.
LoopRank ==
    IF pc = "loop"
    THEN 1 + Len(queue) + MaxDeps * Cardinality(Ids \ to_extract)
    ELSE 0

\* C7 as stated: for every catalog that contains every reachable id the loop
\* ends with to_extract exactly the reachable set, each id expanded once.
C7_Closure ==
    (CatalogClosed /\ pc # "loop") =>
        (pc = "done" /\ to_extract = Reach /\ ExactlyOnce)

\* C7 as amended: the same for every catalog that contains every reachable id
\* and in which no reached entry's dependency list holds the id 0.  The loop
\* terminates: a step is always possible while it runs, and each lowers LoopRank.
C7_ClosureNoZero ==
    /\ []((CatalogClosed /\ ~ZeroListed) =>
            /\ pc # "error"
            /\ pc = "done" => (to_extract = Reach /\ ExactlyOnce))
    /\ [](pc = "loop" => ENABLED NextDeps)
    /\ [](LoopRank >= 0)
    /\ [][LoopRank' < LoopRank]_vars

\* C7 witness: the diamond, target -> 1, 2; 1 -> 3; 2 -> 3, resolved.
C7_Witness ==
    /\ pc = "done"
    /\ dependencies = <<1, 2>>
    /\ DOMAIN ccs = {1, 2, 3}
    /\ ccs[1] = <<3>> /\ ccs[2] = <<3>> /\ ccs[3] = <<>>
    /\ to_extract = {1, 2, 3}

\* C8: if id 0 appears in a dependency list read during resolution (the
\* target's own list or a reached entry's), collect_files aborts and returns
\* no mapping, whatever the catalog holds.
C8_CorruptDependency == zero_read => pc # "done"

(***************************************************************************)
(* Properties of the varint codec                                          *)
(***************************************************************************)
Inverse(r) == r.ok /\ r.out = vn /\ r.i = Len(vbytes)

\* C10: for every n >= 0, decoding make_varint(n) from index 0 returns
\* (n, number of bytes emitted), with the patcher's read_varint and equally
\* with the packager's.
C10_VarintInverse == vread.done => (Inverse(vread.patcher) /\ Inverse(vread.packager))

(***************************************************************************)
(* Specification SpecPatch: main() of tc_fix_rams on one circuit.data.     *)
(***************************************************************************)
MaxComps == 4

\* How many bytes an input file may lack at its end.
Cuts == {0, 1, 2}

PatchTrees ==
    Trees(ComponentLists(MaxComps, Palette)
          \cup { <<RegFileRam, OtherRam>>, <<OtherRam, ProgramRam>> })

PatchInputs ==
    { FileOf(SubSeq(e, 1, Len(e) - cut)) :
        e \in { unparse(Schematic, t) : t \in PatchTrees }, cut \in Cuts }
    \cup { <<VersionByte - 1>> \o snappy_encode(unparse(Schematic, t)) :
              t \in Trees({<<>>}) }

InitPatch ==
    /\ content \in PatchInputs
    /\ buf = <<>> /\ parsed = NoParse /\ unparsed = NoParse /\ patched = NoPatch
    /\ IdleVarint /\ IdleSnappy /\ IdleDeps

Main ==
    /\ patched.status = "start" /\ content # <<>>
    /\ patched' = main(content)
    /\ UNCHANGED <<content, buf, parsed, unparsed, varintVars, snappyVars, depsVars>>

NextPatch == Main
SpecPatch == InitPatch /\ [][NextPatch]_vars

(***************************************************************************)
(* Specification SpecCodec: Schematic.parse on a buffer, then unparse of   *)
(* the tree it returned.                                                   *)
(***************************************************************************)
MaxCodecComps == 1

CodecTrees == Trees(ComponentLists(MaxCodecComps, Palette \cup {OtherRam}))

\* The encoding e of a schematic without components, its component count
\* overwritten with -1.
NegativeCount(e, wires) ==
    LET at == Len(e) - Len(wires) - 8
    IN  SubSeq(e, 1, at) \o Repeat(255, 8) \o SubSeq(e, at + 9, Len(e))

CodecInputs ==
    UNION { { SubSeq(unparse(Schematic, t), 1, n) :
                n \in 0..Len(unparse(Schematic, t)) } : t \in CodecTrees }
    \cup { NegativeCount(unparse(Schematic, t), t.wires) : t \in Trees({<<>>}) }

InitCodec ==
    /\ buf \in CodecInputs
    /\ content = <<>> /\ parsed = NoParse /\ unparsed = NoParse /\ patched = NoPatch
    /\ IdleVarint /\ IdleSnappy /\ IdleDeps

\* res = Schematic.parse(buf, 0)
Parse ==
    /\ ~parsed.done
    /\ parsed' = [done |-> TRUE, r |-> parse(Schematic, buf, 0)]
    /\ UNCHANGED <<content, buf, unparsed, patched, varintVars, snappyVars, depsVars>>

\* res.unparse()
Unparse ==
    /\ parsed.done /\ parsed.r.ok /\ ~unparsed.done
    /\ unparsed' = [done |-> TRUE, bytes |-> unparse(Schematic, parsed.r.val)]
    /\ UNCHANGED <<content, buf, parsed, patched, varintVars, snappyVars, depsVars>>

NextCodec == Parse \/ Unparse
SpecCodec == InitCodec /\ [][NextCodec]_vars

(***************************************************************************)
(* Properties of the schema codec                                          *)
(***************************************************************************)
\* C1: every buffer that Schematic.parse decodes without error unparses to
\* exactly the bytes of that buffer.
C1_RoundTrip ==
    (parsed.done /\ parsed.r.ok /\ unparsed.done) => unparsed.bytes = buf

HasFieldNote(r) == \E k \in DOMAIN r.notes : r.notes[k].what = "field"

\* C6: when a read asked for bytes past the end of the buffer, Schematic.parse
\* fails, the error carries a 'While parsing field' note, and no tree is
\* returned.  Stated for buffers of at least one byte: on the empty buffer no
\* field is entered at all.
C6_TruncatedRecord ==
    (parsed.done /\ buf # <<>> /\ parsed.r.short)
        => (~parsed.r.ok /\ HasFieldNote(parsed.r))

(***************************************************************************)
(* Properties of the patcher's main()                                      *)
(***************************************************************************)
\* The decompressed input file and what Schematic.parse makes of it.
Input ==
    LET dc == IF content = <<>> \/ content[1] # VersionByte
              THEN [ok |-> FALSE, val |-> <<>>]
              ELSE decompress_all(content)
    IN  [ok |-> dc.ok, bytes |-> dc.val, r |-> parse(Schematic, dc.val, 0)]

\* The index of the one component of kind 118 with that buffer size.
RamAt(components, size) ==
    CHOOSE k \in DOMAIN components :
        components[k].component_kind = RamKind /\ components[k].buffer_size = size

\* Exactly two components of kind 118, of sizes 256 and 65536.
TwoRams(components) ==
    /\ Cardinality(ram_indices(components)) = 2
    /\ \E k \in DOMAIN components :
          components[k].component_kind = RamKind
          /\ components[k].buffer_size = RegFileSize
    /\ \E k \in DOMAIN components :
          components[k].component_kind = RamKind
          /\ components[k].buffer_size = ProgramSize

\* main() has run on a file that holds such a schematic.
PatchCase(input) ==
    /\ patched.status # "start"
    /\ input.ok /\ input.r.ok
    /\ TwoRams(input.r.val.components)

NotRam(c) == c.component_kind # RamKind

OtherFields == { Fields("Schematic")[k].name : k \in 1..Len(Fields("Schematic")) }
                   \ {"components"}

\* The bytes of a component with the eight bytes of its word_size replaced;
\* the offset of word_size is read off the component's own bytes.
PatchWord(raw, w) ==
    LET cs  == from_bytes_unsigned(PySlice(raw, 15, 17))
        st  == from_bytes_unsigned(PySlice(raw, 17 + cs, 19 + cs))
        off == 19 + cs + 8 * st + 8 + 2
    IN  PySlice(raw, 0, off) \o to_bytes_signed(w, 8) \o PyTail(raw, off + 8)

RECURSIVE RawOf(_)
RawOf(components) ==
    IF components = <<>> THEN <<>>
    ELSE components[1].raw \o RawOf(Tail(components))

\* The input bytes with the spans of the two RAM components moved behind the
\* other components, first then second, and their word sizes replaced.
Rearranged(bytes, in, first, second, w1, w2) ==
    LET before == Len(bytes) - Len(in.wires) - Len(RawOf(in.components))
    IN  PySlice(bytes, 0, before)
        \o RawOf(SelectSeq(in.components, NotRam))
        \o PatchWord(in.components[first].raw, w1)
        \o PatchWord(in.components[second].raw, w2)
        \o in.wires

\* The tree and the file main() wrote, given which RAM goes second to last.
PatchedAs(input, first, second, w1, w2) ==
    LET in  == input.r.val
        out == patched.res.components
        n   == Len(out)
    IN  /\ patched.status = "written"
        /\ n = Len(in.components)
        /\ out[n - 1] = [in.components[first] EXCEPT !.word_size = w1]
        /\ out[n] = [in.components[second] EXCEPT !.word_size = w2]
        /\ SubSeq(out, 1, n - 2) = SelectSeq(in.components, NotRam)
        /\ \A f \in OtherFields : patched.res[f] = in[f]
        /\ patched.file[1] = VersionByte
        /\ ~input.r.short =>
              decompress_all(patched.file).val
                  = Rearranged(input.bytes, in, first, second, w1, w2)

\* C9 (as stated): the 256 component gets word_size 16, the 65536 component
\* gets word_size 32, both are the last two components in the relative order
\* they had in the input, the other components keep their order and every
\* other field re-encodes to the bytes of the input.  Checked on inputs that
\* were decoded without reading past their end.
C9_PatchScenario ==
    patched.status # "start" =>
        LET input == Input
            cs    == input.r.val.components
            r     == RamAt(cs, RegFileSize)
            g     == RamAt(cs, ProgramSize)
        IN  (PatchCase(input) /\ ~input.r.short) =>
                IF r < g THEN PatchedAs(input, r, g, RegFileWord, ProgramWord)
                         ELSE PatchedAs(input, g, r, ProgramWord, RegFileWord)

\* C9 (amended): the 256 component, with word_size 16, is second to last and
\* the 65536 component, with word_size 32, is last, whatever their order in
\* the input; the other components keep their order and every other field
\* keeps its value; when the input was decoded without reading past its end,
\* the output bytes are the input bytes with just these changes.
C9_PatchRegFileThenProgram ==
    patched.status # "start" =>
        LET input == Input
            cs    == input.r.val.components
        IN  PatchCase(input) =>
                PatchedAs(input, RamAt(cs, RegFileSize), RamAt(cs, ProgramSize),
                          RegFileWord, ProgramWord)

\* A complete input with the 65536 component ahead of the 256 component and
\* two other components around them has been patched.
C9_Witness ==
    /\ patched.status = "written"
    /\ LET input == Input
           cs    == input.r.val.components
       IN  /\ PatchCase(input) /\ ~input.r.short
           /\ RamAt(cs, ProgramSize) < RamAt(cs, RegFileSize)
           /\ Len(SelectSeq(cs, NotRam)) = 2
           /\ cs[1].component_kind = RamKind
           /\ cs[Len(cs)].component_kind # RamKind

====
